---- MODULE Spec2Model ----
(***************************************************************************)
(* Model of src/api/index.js: the user store (register / login), the       *)
(* authenticateToken middleware and the role-gated catalog handlers; and   *)
(* of src/api/t.js, the notification service (send-email), a program of    *)
(* its own with its own store.                                             *)
(*                                                                         *)
(* Every request is a process.  A handler is cut at its database           *)
(* operations: one action is "the database operation takes effect and the  *)
(* handler's code runs on until it issues the next database operation or   *)
(* sends its response".  The synchronous code that runs at arrival is      *)
(* part of the handler's first action.  Requests in flight interleave at   *)
(* these points, which is how the Node.js event loop interleaves the       *)
(* handlers at their awaits.                                               *)
(*                                                                         *)
(* A finished request leaves the set of requests in flight; its request    *)
(* and response are kept in `last`, and the token pair of a 201/200        *)
(* register/login response joins `issued`, the pairs that clients hold.    *)
(*                                                                         *)
(* nreq counts the register and login requests, which are the ones that    *)
(* grow the user store, and numbers them (rid).  Protected requests are    *)
(* not counted: those that build a document are bounded by the ids they    *)
(* take (nextId), the others leave no trace but their effect on the        *)
(* catalog.  save() after refreshTokens.push() sends a $push, so it        *)
(* appends to the stored list whatever the list holds by then.             *)
(***************************************************************************)
EXTENDS Integers, Sequences, FiniteSets, TLC

VARIABLES users, courses, lessons, assignments, nextId,
          inflight, nreq, time, ticks, issued, last,
          transactions, outbox, mailInflight, mailLast, nmail

vars == <<users, courses, lessons, assignments, nextId,
          inflight, nreq, time, ticks, issued, last,
          transactions, outbox, mailInflight, mailLast, nmail>>

\* the state of the notification service (src/api/t.js), a program of its own
mailVars == <<transactions, outbox, mailInflight, mailLast, nmail>>

(* ------------------------------ bounds --------------------------------- *)

\* register and login requests per behaviour, for each specification
MaxReqs == 3

MaxAuthReqs == 2

MaxRoleReqs == 2

MaxCatalogReqs == 1

MaxGateReqs == 1

\* catalog documents constructed per behaviour
MaxDocs == 3

MaxRoleDocs == 1

\* requests in flight at a time
MaxInflight == 2

\* clock advances per behaviour
MaxTicks == 1

\* send-email requests per behaviour
MaxMails == 2

(* ------------------------ program constants ---------------------------- *)

\* expiresIn: '15m' and '7d', in seconds (the unit of a JWT's iat and exp)
AccessTTL == 900

RefreshTTL == 604800

MinPasswordLengthOffByOne == 9

\* line 193: password.length < 8
MinPasswordLength == 8

\* the two signing secrets of the environment, and a key the server does not hold
JWT_SECRET == "JWT_SECRET"

JWT_REFRESH_SECRET == "JWT_REFRESH_SECRET"

OtherKey == "not-a-server-secret"

(* ------------------------------ inputs --------------------------------- *)

\* "" stands for a field or header that is absent (or empty): both are falsy
Names == {"", "Ann"}

Emails == {"", "first@x.com", "second@x.com"}

\* lengths 0, 7, 8 and 9
Passwords == {"", "passwd7", "passwd_8", "passwd__9"}

Roles == {"", "admin", "student"}

\* the inputs that pass validation
ValidEmails == Emails \ {""}

ValidPasswords == {"passwd_8"}

(* ------------------------------ tokens --------------------------------- *)

\* A JWT is its payload and the key that signed it: signing the same payload
\* with the same key in the same second gives the same string.
Jwt(key, userId, role, iat, ttl) ==
    [form |-> "jwt", key |-> key, userId |-> userId, role |-> role,
     iat |-> iat, exp |-> iat + ttl]

Undefined == [form |-> "undefined", key |-> "", userId |-> 0, role |-> "",
              iat |-> 0, exp |-> 0]

Malformed == [form |-> "malformed", key |-> "", userId |-> 0, role |-> "",
              iat |-> 0, exp |-> 0]

\* jwt.sign({ userId, role }, JWT_SECRET, { expiresIn: '15m' })
SignAccess(userId, role, now) == Jwt(JWT_SECRET, userId, role, now, AccessTTL)

\* jwt.sign({ userId }, JWT_REFRESH_SECRET, { expiresIn: '7d' }): no role claim
SignRefresh(userId, now) == Jwt(JWT_REFRESH_SECRET, userId, "", now, RefreshTTL)

\* jwt.verify(token, secret): the error it throws, or "ok".  The structure is
\* checked first, then the signature, then the expiry (now >= exp is expired).
JwtVerify(t, secret, now) ==
    IF t.form # "jwt" THEN "JsonWebTokenError"
    ELSE IF t.key # secret THEN "JsonWebTokenError"
    ELSE IF now >= t.exp THEN "TokenExpiredError"
    ELSE "ok"

\* bcrypt.hash(password, 10) and bcrypt.compare(password, hash)
BcryptHash(p) == <<"bcrypt", p>>

BcryptCompare(p, h) == h = BcryptHash(p)

(* ------------------------------ requests ------------------------------- *)

NoUser == [id |-> 0, name |-> "", email |-> "", password |-> <<>>,
           role |-> "", refreshTokens |-> <<>>]

\* a request as it arrives: body fields, headers, route parameter; and the
\* handler's locals and the response, not yet set
Request(kind, rid) ==
    [rid |-> rid, kind |-> kind, pc |-> "start",
     name |-> "", email |-> "", password |-> "",
     hAuth |-> <<>>, hEmail |-> "", hRole |-> "", param |-> 0, body |-> "",
     role |-> "", user |-> NoUser, doc |-> 0,
     token |-> Undefined, refreshToken |-> Undefined,
     status |-> 0, message |-> "", code |-> "", sent |-> 0, next |-> 0]

\* res.status(s).json({ message, code })
Respond(r, s, m, c) ==
    [r EXCEPT !.pc = "done", !.status = s, !.message = m, !.code = c,
              !.sent = @ + 1]

NoRequest == Request("none", 0)

\* a send-email request as it arrives on one of the three routes: the body
\* fields the record and the mail are built from, and the response, not yet set
MailRequest(route, rid) ==
    [rid |-> rid, route |-> route, pc |-> "start",
     wallet |-> "", amount |-> "", coin |-> "", email |-> "",
     html |-> <<>>, status |-> 0, message |-> ""]

NoMailRequest == MailRequest("none", 0)

(* ------------------------------ store ---------------------------------- *)

\* User.findOne({ email })
FindByEmail(email) ==
    IF \E i \in DOMAIN users : users[i].email = email
    THEN users[CHOOSE i \in DOMAIN users : users[i].email = email]
    ELSE NoUser

\* User.countDocuments()
CountDocuments == Len(users)

NoUniqueIndex(email) == FALSE

\* the unique index on email (email: { unique: true }) rejects the insert
DuplicateKey(email) == \E i \in DOMAIN users : users[i].email = email

Init ==
    /\ users = <<>>
    /\ courses = <<>>
    /\ lessons = <<>>
    /\ assignments = <<>>
    /\ nextId = 1
    /\ inflight = {}
    /\ nreq = 0
    /\ time = 0
    /\ ticks = 0
    /\ issued = {}
    /\ last = NoRequest
    /\ transactions = <<>>
    /\ outbox = <<>>
    /\ mailInflight = {}
    /\ mailLast = NoMailRequest
    /\ nmail = 0

catalogVars == <<courses, lessons, assignments, nextId>>

\* the request r in flight finishes with the response in r2
Finish(r, r2) ==
    /\ inflight' = inflight \ {r}
    /\ last' = r2

\* the request r in flight goes on as r2
Continue(r, r2) ==
    /\ inflight' = (inflight \ {r}) \cup {r2}
    /\ UNCHANGED last

\* a request arrives and its handler answers before any await
Answer(r2) ==
    /\ UNCHANGED inflight
    /\ last' = r2

\* a request arrives and its handler reaches an await
Accept(r2) ==
    /\ Cardinality(inflight) < MaxInflight
    /\ r2 \notin inflight
    /\ inflight' = inflight \cup {r2}
    /\ UNCHANGED last

\* no request is in flight
Idle == inflight = {}

(* ------------------------- POST /api/register -------------------------- *)

\* lines 187-200: validation and the existing-user lookup, for at most bound
\* register and login requests and bodies drawn from the given sets
RegisterLookup(bound, names, emails, passwords) ==
    /\ nreq < bound
    /\ nreq' = nreq + 1
    /\ \E n \in names, e \in emails, p \in passwords :
         LET r == [Request("register", nreq + 1) EXCEPT
                      !.name = n, !.email = e, !.password = p]
         IN IF n = "" \/ e = "" \/ p = ""
            THEN Answer(Respond(r, 400, "All fields are required", ""))
            ELSE IF Len(p) < MinPasswordLength
            THEN Answer(Respond(r, 400, "Password must be at least 8 characters", ""))
            ELSE IF FindByEmail(e) # NoUser
            THEN Answer(Respond(r, 400, "Email already in use", ""))
            ELSE Accept([r EXCEPT !.pc = "count"])
    /\ UNCHANGED <<users, catalogVars, time, ticks, issued, mailVars>>

\* lines 203-214: (hash,) count the users, choose the role, build newUser
RegisterCount ==
    /\ \E r \in inflight :
         /\ r.kind = "register" /\ r.pc = "count"
         /\ Continue(r, [r EXCEPT !.pc = "insert",
                           !.role = IF CountDocuments = 0 THEN "admin" ELSE "student"])
    /\ UNCHANGED <<users, catalogVars, nreq, time, ticks, issued, mailVars>>

\* lines 216-231: the first save inserts newUser; the tokens are signed and
\* the refresh token pushed on newUser.refreshTokens
RegisterInsert ==
    /\ \E r \in inflight :
         /\ r.kind = "register" /\ r.pc = "insert"
         /\ IF DuplicateKey(r.email)
            THEN /\ Finish(r, Respond(r, 500, "Registration failed", ""))
                 /\ UNCHANGED users
            ELSE LET id == Len(users) + 1
                     u == [id |-> id, name |-> r.name, email |-> r.email,
                           password |-> BcryptHash(r.password), role |-> r.role,
                           refreshTokens |-> <<>>]
                 IN /\ users' = Append(users, u)
                    /\ Continue(r, [r EXCEPT !.pc = "save", !.user = u,
                                      !.token = SignAccess(id, r.role, time),
                                      !.refreshToken = SignRefresh(id, time)])
    /\ UNCHANGED <<catalogVars, nreq, time, ticks, issued, mailVars>>

\* lines 232-245: the second save pushes the refresh token on the stored
\* document; the response carries the pair
RegisterSave ==
    /\ \E r \in inflight :
         /\ r.kind = "register" /\ r.pc = "save"
         /\ users' = [users EXCEPT ![r.user.id].refreshTokens =
                                        Append(@, r.refreshToken)]
         /\ Finish(r, Respond(r, 201, "User registered successfully", ""))
         /\ issued' = issued \cup {[token |-> r.token,
                                    refreshToken |-> r.refreshToken,
                                    email |-> r.email, by |-> "register"]}
    /\ UNCHANGED <<catalogVars, nreq, time, ticks, mailVars>>

(* --------------------------- POST /api/login --------------------------- *)

LoginLookupTellsUnknown(bound, emails, passwords) ==
    /\ nreq < bound
    /\ nreq' = nreq + 1
    /\ \E e \in emails, p \in passwords :
         LET r == [Request("login", nreq + 1) EXCEPT !.email = e, !.password = p]
             user == FindByEmail(e)
         IN IF e = "" \/ p = ""
            THEN Answer(Respond(r, 400, "Email and password required", ""))
            ELSE IF user = NoUser
            THEN Answer(Respond(r, 404, "User not found", ""))
            ELSE IF ~BcryptCompare(p, user.password)
            THEN Answer(Respond(r, 401, "Invalid email or password", ""))
            ELSE Accept([r EXCEPT !.pc = "save", !.user = user,
                            !.token = SignAccess(user.id, user.role, time),
                            !.refreshToken = SignRefresh(user.id, time)])
    /\ UNCHANGED <<users, catalogVars, time, ticks, issued, mailVars>>

\* lines 260-287: validation, lookup by email, password check, tokens
LoginLookup(bound, emails, passwords) ==
    /\ nreq < bound
    /\ nreq' = nreq + 1
    /\ \E e \in emails, p \in passwords :
         LET r == [Request("login", nreq + 1) EXCEPT !.email = e, !.password = p]
             user == FindByEmail(e)
         IN IF e = "" \/ p = ""
            THEN Answer(Respond(r, 400, "Email and password required", ""))
            ELSE IF user = NoUser
            THEN Answer(Respond(r, 401, "Invalid email or password", ""))
            ELSE IF ~BcryptCompare(p, user.password)
            THEN Answer(Respond(r, 401, "Invalid email or password", ""))
            ELSE Accept([r EXCEPT !.pc = "save", !.user = user,
                            !.token = SignAccess(user.id, user.role, time),
                            !.refreshToken = SignRefresh(user.id, time)])
    /\ UNCHANGED <<users, catalogVars, time, ticks, issued, mailVars>>

\* the save as a write of the whole list the handler read at its lookup
LoginSaveWholeList ==
    /\ \E r \in inflight :
         /\ r.kind = "login" /\ r.pc = "save"
         /\ users' = [users EXCEPT ![r.user.id].refreshTokens =
                                        Append(r.user.refreshTokens, r.refreshToken)]
         /\ Finish(r, Respond(r, 200, "Login successful", ""))
         /\ issued' = issued \cup {[token |-> r.token,
                                    refreshToken |-> r.refreshToken,
                                    email |-> r.email, by |-> "login"]}
    /\ UNCHANGED <<catalogVars, nreq, time, ticks, mailVars>>

\* lines 287-300: save pushes the refresh token on the stored document
LoginSave ==
    /\ \E r \in inflight :
         /\ r.kind = "login" /\ r.pc = "save"
         /\ users' = [users EXCEPT ![r.user.id].refreshTokens =
                                        Append(@, r.refreshToken)]
         /\ Finish(r, Respond(r, 200, "Login successful", ""))
         /\ issued' = issued \cup {[token |-> r.token,
                                    refreshToken |-> r.refreshToken,
                                    email |-> r.email, by |-> "login"]}
    /\ UNCHANGED <<catalogVars, nreq, time, ticks, mailVars>>

(* ------------------------ a save that rejects -------------------------- *)

\* lines 232, 247-250: the second save of a registration rejects (the database
\* is unreachable, say); the catch block answers 500 and nothing was written
RegisterSaveFails ==
    /\ \E r \in inflight :
         /\ r.kind = "register" /\ r.pc = "save"
         /\ Finish(r, Respond(r, 500, "Registration failed", ""))
    /\ UNCHANGED <<users, catalogVars, nreq, time, ticks, issued, mailVars>>

\* the rejection swallowed: the response carries the pair all the same
LoginSaveErrorSwallowed ==
    /\ \E r \in inflight :
         /\ r.kind = "login" /\ r.pc = "save"
         /\ Finish(r, Respond(r, 200, "Login successful", ""))
         /\ issued' = issued \cup {[token |-> r.token,
                                    refreshToken |-> r.refreshToken,
                                    email |-> r.email, by |-> "login"]}
    /\ UNCHANGED <<users, catalogVars, nreq, time, ticks, mailVars>>

\* lines 288, 302-305: the save of a login rejects; the catch block answers 500
LoginSaveFails ==
    /\ \E r \in inflight :
         /\ r.kind = "login" /\ r.pc = "save"
         /\ Finish(r, Respond(r, 500, "Login failed", ""))
    /\ UNCHANGED <<users, catalogVars, nreq, time, ticks, issued, mailVars>>

(* ------------------------------- clock --------------------------------- *)

\* the wall clock that jwt.sign and jwt.verify read, in seconds
Tick(deltas) ==
    /\ ticks < MaxTicks
    /\ ticks' = ticks + 1
    /\ \E d \in deltas : time' = time + d
    /\ UNCHANGED <<users, catalogVars, inflight, nreq, issued, last, mailVars>>

(* ------------------------- authenticateToken --------------------------- *)

\* authHeader && authHeader.split(' ')[1]
BearerToken(authHeader) ==
    IF authHeader = <<>> THEN Undefined
    ELSE IF Len(authHeader) < 2 THEN Undefined
    ELSE authHeader[2]

\* the lookup by _id alone
FindByIdOnly(id, email) ==
    IF id \in DOMAIN users THEN users[id] ELSE NoUser

\* User.findOne({ _id, email })
FindByIdAndEmail(id, email) ==
    IF id \in DOMAIN users /\ users[id].email = email THEN users[id] ELSE NoUser

\* the scan left out
NoRefreshTokenScan(user, decoded, now) == TRUE

\* the entries verified under the access secret
RefreshScanWithAccessSecret(user, decoded, now) ==
    \E i \in DOMAIN user.refreshTokens :
        /\ JwtVerify(user.refreshTokens[i], JWT_SECRET, now) = "ok"
        /\ user.refreshTokens[i].userId = decoded.userId

\* lines 138-145: some entry of user.refreshTokens verifies under the refresh
\* secret and carries the access token's userId; an entry that fails to verify
\* is skipped
HasLiveRefreshToken(user, decoded, now) ==
    \E i \in DOMAIN user.refreshTokens :
        /\ JwtVerify(user.refreshTokens[i], JWT_REFRESH_SECRET, now) = "ok"
        /\ user.refreshTokens[i].userId = decoded.userId

\* the catch block without its TokenExpiredError branch
AuthCatchNoExpiry(r, errorName) ==
    IF errorName = "JsonWebTokenError"
    THEN Respond(r, 403, "Invalid token", "INVALID_TOKEN")
    ELSE Respond(r, 500, "Authentication failed", "AUTH_FAILED")

\* lines 154-175: the catch block, by the name of the error caught
AuthCatch(r, errorName) ==
    IF errorName = "TokenExpiredError"
    THEN Respond(r, 401, "Token expired", "TOKEN_EXPIRED")
    ELSE IF errorName = "JsonWebTokenError"
    THEN Respond(r, 403, "Invalid token", "INVALID_TOKEN")
    ELSE Respond(r, 500, "Authentication failed", "AUTH_FAILED")

\* the middleware with its first two checks in the other order
AuthenticateTokenEmailFirst(r) ==
    LET token == BearerToken(r.hAuth)
        userEmail == r.hEmail
    IN IF userEmail = ""
       THEN Respond(r, 401, "User email required", "EMAIL_MISSING")
       ELSE IF token = Undefined
       THEN Respond(r, 401, "Authorization token required", "TOKEN_MISSING")
       ELSE IF JwtVerify(token, JWT_SECRET, time) # "ok"
       THEN AuthCatch(r, JwtVerify(token, JWT_SECRET, time))
       ELSE LET decoded == token
                user == FindByIdAndEmail(decoded.userId, userEmail)
            IN IF user = NoUser
               THEN Respond(r, 403, "Invalid credentials", "INVALID_CREDENTIALS")
               ELSE IF ~HasLiveRefreshToken(user, decoded, time)
               THEN Respond(r, 403, "Token invalidated", "TOKEN_INVALIDATED")
               ELSE [r EXCEPT !.user = user, !.next = @ + 1]

\* the scan without its inner try/catch: the first entry that fails to
\* verify, met before an entry that matches, throws to the outer catch block
AuthenticateTokenScanThrows(r) ==
    LET token == BearerToken(r.hAuth)
        userEmail == r.hEmail
    IN IF token = Undefined
       THEN Respond(r, 401, "Authorization token required", "TOKEN_MISSING")
       ELSE IF userEmail = ""
       THEN Respond(r, 401, "User email required", "EMAIL_MISSING")
       ELSE IF JwtVerify(token, JWT_SECRET, time) # "ok"
       THEN AuthCatch(r, JwtVerify(token, JWT_SECRET, time))
       ELSE LET decoded == token
                user == FindByIdAndEmail(decoded.userId, userEmail)
                list == user.refreshTokens
                stops == {i \in DOMAIN list :
                             \/ JwtVerify(list[i], JWT_REFRESH_SECRET, time) # "ok"
                             \/ list[i].userId = decoded.userId}
                first == CHOOSE i \in stops : \A j \in stops : i <= j
            IN IF user = NoUser
               THEN Respond(r, 403, "Invalid credentials", "INVALID_CREDENTIALS")
               ELSE IF stops = {}
               THEN Respond(r, 403, "Token invalidated", "TOKEN_INVALIDATED")
               ELSE IF JwtVerify(list[first], JWT_REFRESH_SECRET, time) # "ok"
               THEN AuthCatch(r, JwtVerify(list[first], JWT_REFRESH_SECRET, time))
               ELSE [r EXCEPT !.user = user, !.next = @ + 1]

\* lines 104-176: the request after the middleware: answered (pc = "done"),
\* or handed to the route's handler by next() with req.user set.  The clock
\* is read once: the lookup's latency is nothing against a token's lifetime.
AuthenticateToken(r) ==
    LET token == BearerToken(r.hAuth)
        userEmail == r.hEmail
    IN IF token = Undefined
       THEN Respond(r, 401, "Authorization token required", "TOKEN_MISSING")
       ELSE IF userEmail = ""
       THEN Respond(r, 401, "User email required", "EMAIL_MISSING")
       ELSE IF JwtVerify(token, JWT_SECRET, time) # "ok"
       THEN AuthCatch(r, JwtVerify(token, JWT_SECRET, time))
       ELSE LET decoded == token
                user == FindByIdAndEmail(decoded.userId, userEmail)
            IN IF user = NoUser
               THEN Respond(r, 403, "Invalid credentials", "INVALID_CREDENTIALS")
               ELSE IF ~HasLiveRefreshToken(user, decoded, time)
               THEN Respond(r, 403, "Token invalidated", "TOKEN_INVALIDATED")
               ELSE [r EXCEPT !.user = user, !.next = @ + 1]

\* a protected request of the given route, with headers h, parameter and body
Protected(kind, h, param, body) ==
    [Request(kind, 0) EXCEPT !.hAuth = h.hAuth, !.hEmail = h.hEmail,
                                    !.hRole = h.hRole, !.param = param,
                                    !.body = body]

\* a well-signed token of a key the server does not hold
Forged == Jwt(OtherKey, 1, "admin", 0, RefreshTTL + RefreshTTL + RefreshTTL)

\* the same, with an expiry in the past
ForgedExpired == Jwt(OtherKey, 1, "admin", 0, 0)

\* every header combination a client can send with the tokens in toks
Headers(toks, emails, roles) ==
    {[hAuth |-> a, hEmail |-> e, hRole |-> ro] :
        a \in {<<>>, <<"Bearer">>} \cup {<<"Bearer", t>> : t \in toks},
        e \in emails, ro \in roles}

\* the headers of a client that sends a pair it was issued with its own email
OwnHeaders(roles) ==
    {[hAuth |-> <<"Bearer", p.token>>, hEmail |-> p.email, hRole |-> ro] :
        p \in issued, ro \in roles}

\* the same, with the role header naming the role the client was given
RoleHeaders ==
    {[hAuth |-> <<"Bearer", p.token>>, hEmail |-> p.email, hRole |-> p.token.role] :
        p \in issued}

\* the ids a client can name: those handed out so far, and one (0) that names
\* no document
Ids == 0 .. (nextId - 1)

(* ------------------------------- catalog ------------------------------- *)

NoBody == <<>>

\* findByIdAndUpdate(id, update): the fields of the update replace the document's
ApplyUpdate(doc, update) ==
    [f \in DOMAIN doc |-> IF f \in DOMAIN update THEN update[f] ELSE doc[f]]

Remove(coll, id) == [i \in DOMAIN coll \ {id} |-> coll[i]]

Insert(coll, id, doc) == [i \in DOMAIN coll \cup {id} |-> IF i = id THEN doc ELSE coll[i]]

\* arrival of a protected request r: the middleware, then the handler's code up
\* to its first await.  forbidden is the handler's role test; construct says
\* whether the handler builds a new document (which takes a fresh _id).
Enter(maxDocs, r, forbidden(_), pc, construct) ==
    LET r1 == AuthenticateToken(r)
    IN /\ IF r1.pc = "done"
          THEN Answer(r1) /\ UNCHANGED nextId
          ELSE IF forbidden(r1)
          THEN Answer(Respond(r1, 403, "Forbidden", "")) /\ UNCHANGED nextId
          ELSE IF construct
          THEN /\ nextId <= maxDocs
               /\ Accept([r1 EXCEPT !.pc = pc, !.doc = nextId])
               /\ nextId' = nextId + 1
          ELSE Accept([r1 EXCEPT !.pc = pc]) /\ UNCHANGED nextId
       /\ UNCHANGED <<users, courses, lessons, assignments, nreq, time, ticks, issued, mailVars>>

\* line 315: the role the request's header claims
HeaderNotAdmin(r) == r.hRole # "admin"

\* lines 341, 348, 357, ...: the role of the user the middleware resolved
UserNotAdmin(r) == r.user.role # "admin"

\* lines 314-318
PostCourses(maxDocs, H, bodies) ==
    \E h \in H, b \in bodies :
        Enter(maxDocs, Protected("postCourses", h, 0, b), HeaderNotAdmin, "courseSave", TRUE)

\* lines 319-323: course.save(): name and code are required, code is unique
CourseSave ==
    /\ \E r \in inflight :
         /\ r.kind = "postCourses" /\ r.pc = "courseSave"
         /\ IF \/ r.body.name = "" \/ r.body.code = ""
               \/ \E i \in DOMAIN courses : courses[i].code = r.body.code
            THEN /\ Finish(r, Respond(r, 500, "Error creating course", ""))
                 /\ UNCHANGED courses
            ELSE /\ courses' = Insert(courses, r.doc,
                                   [name |-> r.body.name, code |-> r.body.code,
                                    lessons |-> <<>>, assignments |-> <<>>,
                                    createdBy |-> r.user.id])
                 /\ Finish(r, Respond(r, 201, "", ""))
    /\ UNCHANGED <<users, lessons, assignments, nextId, nreq, time, ticks, issued, mailVars>>

\* lines 340-341
PutCourse(H, ids, bodies) ==
    \E h \in H, id \in ids, b \in bodies :
        Enter(0, Protected("putCourse", h, id, b), UserNotAdmin, "courseUpdate", FALSE)

\* lines 342-343: findByIdAndUpdate(id, req.body); null when no course has the id
CourseUpdate ==
    /\ \E r \in inflight :
         /\ r.kind = "putCourse" /\ r.pc = "courseUpdate"
         /\ courses' = IF r.param \in DOMAIN courses
                       THEN [courses EXCEPT ![r.param] = ApplyUpdate(@, r.body)]
                       ELSE courses
         /\ Finish(r, Respond(r, 200, "", ""))
    /\ UNCHANGED <<users, lessons, assignments, nextId, nreq, time, ticks, issued, mailVars>>

\* lines 347-348
DeleteCourse(H, ids) ==
    \E h \in H, id \in ids :
        Enter(0, Protected("deleteCourse", h, id, NoBody), UserNotAdmin, "courseDelete", FALSE)

\* the delete with a cascade to the course's lessons and assignments
CourseDeleteCascade ==
    /\ \E r \in inflight :
         /\ r.kind = "deleteCourse" /\ r.pc = "courseDelete"
         /\ courses' = Remove(courses, r.param)
         /\ lessons' = [i \in {j \in DOMAIN lessons : lessons[j].course # r.param}
                           |-> lessons[i]]
         /\ assignments' = [i \in {j \in DOMAIN assignments :
                                       assignments[j].course # r.param}
                               |-> assignments[i]]
         /\ Finish(r, Respond(r, 200, "Course deleted", ""))
    /\ UNCHANGED <<users, nextId, nreq, time, ticks, issued, mailVars>>

\* lines 349-350
CourseDelete ==
    /\ \E r \in inflight :
         /\ r.kind = "deleteCourse" /\ r.pc = "courseDelete"
         /\ courses' = Remove(courses, r.param)
         /\ Finish(r, Respond(r, 200, "Course deleted", ""))
    /\ UNCHANGED <<users, lessons, assignments, nextId, nreq, time, ticks, issued, mailVars>>

\* lines 356-359
PostLessons(maxDocs, H, ids, bodies) ==
    \E h \in H, id \in ids, b \in bodies :
        Enter(maxDocs, Protected("postLessons", h, id, b), UserNotAdmin, "lessonSave", TRUE)

\* line 360: lesson.save()
LessonSave ==
    /\ \E r \in inflight :
         /\ r.kind = "postLessons" /\ r.pc = "lessonSave"
         /\ lessons' = Insert(lessons, r.doc,
                              [title |-> r.body.title,
                               youtubeLink |-> r.body.youtubeLink,
                               course |-> r.param])
         /\ Continue(r, [r EXCEPT !.pc = "lessonPush"])
    /\ UNCHANGED <<users, courses, assignments, nextId, nreq, time, ticks, issued, mailVars>>

\* lines 361-362: $push on the course with the id, if there is one; 201 either way
LessonPush ==
    /\ \E r \in inflight :
         /\ r.kind = "postLessons" /\ r.pc = "lessonPush"
         /\ courses' = IF r.param \in DOMAIN courses
                       THEN [courses EXCEPT ![r.param].lessons = Append(@, r.doc)]
                       ELSE courses
         /\ Finish(r, Respond(r, 201, "", ""))
    /\ UNCHANGED <<users, lessons, assignments, nextId, nreq, time, ticks, issued, mailVars>>

\* lines 366-367
PutLesson(H, ids, bodies) ==
    \E h \in H, id \in ids, b \in bodies :
        Enter(0, Protected("putLesson", h, id, b), UserNotAdmin, "lessonUpdate", FALSE)

\* lines 368-369
LessonUpdate ==
    /\ \E r \in inflight :
         /\ r.kind = "putLesson" /\ r.pc = "lessonUpdate"
         /\ lessons' = IF r.param \in DOMAIN lessons
                       THEN [lessons EXCEPT ![r.param] = ApplyUpdate(@, r.body)]
                       ELSE lessons
         /\ Finish(r, Respond(r, 200, "", ""))
    /\ UNCHANGED <<users, courses, assignments, nextId, nreq, time, ticks, issued, mailVars>>

\* lines 373-374
DeleteLesson(H, ids) ==
    \E h \in H, id \in ids :
        Enter(0, Protected("deleteLesson", h, id, NoBody), UserNotAdmin, "lessonDelete", FALSE)

\* lines 375-376
LessonDelete ==
    /\ \E r \in inflight :
         /\ r.kind = "deleteLesson" /\ r.pc = "lessonDelete"
         /\ lessons' = Remove(lessons, r.param)
         /\ Finish(r, Respond(r, 200, "Lesson deleted", ""))
    /\ UNCHANGED <<users, courses, assignments, nextId, nreq, time, ticks, issued, mailVars>>

\* lines 382-385
PostAssignments(maxDocs, H, ids, bodies) ==
    \E h \in H, id \in ids, b \in bodies :
        Enter(maxDocs, Protected("postAssignments", h, id, b), UserNotAdmin, "assignmentSave", TRUE)

\* line 386: assignment.save()
AssignmentSave ==
    /\ \E r \in inflight :
         /\ r.kind = "postAssignments" /\ r.pc = "assignmentSave"
         /\ assignments' = Insert(assignments, r.doc,
                                  [title |-> r.body.title, link |-> r.body.link,
                                   course |-> r.param])
         /\ Continue(r, [r EXCEPT !.pc = "assignmentPush"])
    /\ UNCHANGED <<users, courses, lessons, nextId, nreq, time, ticks, issued, mailVars>>

\* lines 387-388
AssignmentPush ==
    /\ \E r \in inflight :
         /\ r.kind = "postAssignments" /\ r.pc = "assignmentPush"
         /\ courses' = IF r.param \in DOMAIN courses
                       THEN [courses EXCEPT ![r.param].assignments = Append(@, r.doc)]
                       ELSE courses
         /\ Finish(r, Respond(r, 201, "", ""))
    /\ UNCHANGED <<users, lessons, assignments, nextId, nreq, time, ticks, issued, mailVars>>

\* lines 392-393
PutAssignment(H, ids, bodies) ==
    \E h \in H, id \in ids, b \in bodies :
        Enter(0, Protected("putAssignment", h, id, b), UserNotAdmin, "assignmentUpdate", FALSE)

\* lines 394-395
AssignmentUpdate ==
    /\ \E r \in inflight :
         /\ r.kind = "putAssignment" /\ r.pc = "assignmentUpdate"
         /\ assignments' = IF r.param \in DOMAIN assignments
                           THEN [assignments EXCEPT ![r.param] = ApplyUpdate(@, r.body)]
                           ELSE assignments
         /\ Finish(r, Respond(r, 200, "", ""))
    /\ UNCHANGED <<users, courses, lessons, nextId, nreq, time, ticks, issued, mailVars>>

\* lines 399-400
DeleteAssignment(H, ids) ==
    \E h \in H, id \in ids :
        Enter(0, Protected("deleteAssignment", h, id, NoBody), UserNotAdmin, "assignmentDelete", FALSE)

\* lines 401-402
AssignmentDelete ==
    /\ \E r \in inflight :
         /\ r.kind = "deleteAssignment" /\ r.pc = "assignmentDelete"
         /\ assignments' = Remove(assignments, r.param)
         /\ Finish(r, Respond(r, 200, "Assignment deleted", ""))
    /\ UNCHANGED <<users, courses, lessons, nextId, nreq, time, ticks, issued, mailVars>>

(* ------------------- notification service (t.js) ----------------------- *)

\* the keys of the templates object
Templates == {"binance", "coinbase", "bybit", "cashapp", "paypal", "luno",
              "zelle", "okx", "roqqu", "bitso"}

MailRoutes == {"send-email", "send-email-bitso-spanish", "send-email-bitso-portugusse"}

\* "" stands for a field that is absent or empty: the schema's `required`
\* rejects both
Wallets == {"", "Binance", "BITSO", "okx", "Kraken"}

Amounts == {"0.5"}

Coins == {"BTC"}

MailEmails == {"", "a@b.com"}

\* wallet.toLowerCase(), on the wallets above
ToLowerCase(w) ==
    CASE w = "Binance" -> "binance"
      [] w = "BITSO" -> "bitso"
      [] w = "Kraken" -> "kraken"
      [] OTHER -> w

AmountOnly(amount, coin) == <<amount>>

\* `${amount} ${coin}`: the pieces of the string, in order
TemplateLiteral(amount, coin) == <<amount, " ", coin>>

\* the subject line of the route (accents left out)
Subject(route, wallet) ==
    IF route = "send-email" THEN <<wallet, " Transaction Confirmation">>
    ELSE IF route = "send-email-bitso-spanish"
    THEN <<"Recibiste un deposito de ", "undefined">>
    ELSE <<"Voce recebeu um deposito de ", "undefined">>

\* the handler's synchronous code up to `await newTransaction.save()`
SendEmail ==
    /\ nmail < MaxMails
    /\ nmail' = nmail + 1
    /\ \E route \in MailRoutes, w \in Wallets, a \in Amounts, c \in Coins,
          e \in MailEmails :
         mailInflight' = mailInflight \cup
             {[MailRequest(route, nmail + 1) EXCEPT
                  !.pc = "save", !.wallet = w, !.amount = a, !.coin = c,
                  !.email = e]}
    /\ UNCHANGED <<transactions, outbox, mailLast>>
    /\ UNCHANGED <<users, catalogVars, inflight, nreq, time, ticks, issued, last>>

\* newTransaction.save() validates (wallet, amount and email are required) and
\* inserts; then the template is looked up under the lower-cased wallet and
\* called, and sendMail is issued.  A rejected save and a missing template
\* both end in the catch block.
TransactionSave ==
    /\ \E r \in mailInflight :
         /\ r.pc = "save"
         /\ IF r.wallet = "" \/ r.email = ""
            THEN /\ mailInflight' = mailInflight \ {r}
                 /\ mailLast' = [r EXCEPT !.pc = "done", !.status = 500,
                                          !.message = "Transaction validation failed"]
                 /\ UNCHANGED transactions
            ELSE /\ transactions' = Append(transactions,
                        [wallet |-> r.wallet,
                         amount |-> TemplateLiteral(r.amount, r.coin),
                         email |-> r.email, status |-> "Sent"])
                 /\ IF ToLowerCase(r.wallet) \notin Templates
                    THEN /\ mailInflight' = mailInflight \ {r}
                         /\ mailLast' = [r EXCEPT !.pc = "done", !.status = 500,
                                !.message = "templates[templateName] is not a function"]
                    ELSE /\ mailInflight' = (mailInflight \ {r}) \cup
                               {[r EXCEPT !.pc = "send",
                                    !.html = <<ToLowerCase(r.wallet),
                                               TemplateLiteral(r.amount, r.coin)>>]}
                         /\ UNCHANGED mailLast
    /\ UNCHANGED <<outbox, nmail>>
    /\ UNCHANGED <<users, catalogVars, inflight, nreq, time, ticks, issued, last>>

\* transporter.sendMail(...): the relay takes the mail, or the call rejects
SendMail ==
    /\ \E r \in mailInflight :
         /\ r.pc = "send"
         /\ mailInflight' = mailInflight \ {r}
         /\ \E relayOk \in BOOLEAN :
              IF relayOk
              THEN /\ outbox' = Append(outbox,
                          [from |-> r.wallet, to |-> r.email,
                           subject |-> Subject(r.route, r.wallet),
                           html |-> r.html])
                   /\ mailLast' = [r EXCEPT !.pc = "done", !.status = 200,
                                            !.message = "Email sent successfully"]
              ELSE /\ UNCHANGED outbox
                   /\ mailLast' = [r EXCEPT !.pc = "done", !.status = 500,
                                            !.message = "sendMail rejected"]
    /\ UNCHANGED <<transactions, nmail>>
    /\ UNCHANGED <<users, catalogVars, inflight, nreq, time, ticks, issued, last>>

(* --------------------------- specifications ---------------------------- *)

\* the user store alone: every register and login input, any interleaving
UsersRegisterLookup == RegisterLookup(MaxReqs, Names, Emails, Passwords)

UsersLoginLookup == LoginLookup(MaxReqs, Emails, Passwords)

NextUsers ==
    \/ UsersRegisterLookup
    \/ RegisterCount
    \/ RegisterInsert
    \/ RegisterSave
    \/ UsersLoginLookup
    \/ LoginSave

SpecUsers == Init /\ [][NextUsers]_vars

\* the user store with saves that can reject: valid registrations and logins,
\* any interleaving, and the save that persists the refresh token either
\* takes effect or rejects.  The clock advances by a second, so that a
\* login's refresh token differs from the registration's.
WritesRegisterLookup == RegisterLookup(MaxReqs, {"Ann"}, ValidEmails, ValidPasswords)

WritesLoginLookup == LoginLookup(MaxReqs, ValidEmails, ValidPasswords)

WritesTick == Tick({1})

NextWrites ==
    \/ WritesRegisterLookup
    \/ RegisterCount
    \/ RegisterInsert
    \/ RegisterSave
    \/ RegisterSaveFails
    \/ WritesLoginLookup
    \/ LoginSave
    \/ LoginSaveFails
    \/ WritesTick

SpecWrites == Init /\ [][NextWrites]_vars

\* removal of a refresh token from a user's stored list (spec 4.2, step 5:
\* "removing the token from the collection"); index.js has no such endpoint
RevokeRefreshToken ==
    /\ Idle
    /\ \E i \in DOMAIN users :
         \E k \in DOMAIN users[i].refreshTokens :
            users' = [users EXCEPT ![i].refreshTokens =
                         SelectSeq(@, LAMBDA t : t # users[i].refreshTokens[k])]
    /\ UNCHANGED <<catalogVars, inflight, nreq, time, ticks, issued, last, mailVars>>

\* the middleware: valid registrations and logins issue tokens, the clock
\* advances, and a protected route is called with every header combination at
\* any time.  A registration or login is taken up, and the clock advanced,
\* when no request is in flight: a request's latency is nothing against the
\* lifetime of a token.
ClientTokens == {p.token : p \in issued} \cup {Malformed, Forged, ForgedExpired}

AuthRegisterLookup ==
    Idle /\ RegisterLookup(MaxAuthReqs, {"Ann"}, ValidEmails, ValidPasswords)

AuthLoginLookup == Idle /\ LoginLookup(MaxAuthReqs, ValidEmails, ValidPasswords)

\* a second, and the lifetime of an access token
AuthTick == Idle /\ Tick({1, AccessTTL})

AuthDeleteCourse ==
    DeleteCourse(Headers(ClientTokens, Emails, {""}), {0})

NextAuth ==
    \/ AuthRegisterLookup
    \/ RegisterCount
    \/ RegisterInsert
    \/ RegisterSave
    \/ AuthLoginLookup
    \/ LoginSave
    \/ AuthTick
    \/ AuthDeleteCourse
    \/ CourseDelete

SpecAuth == Init /\ [][NextAuth]_vars

\* the same with refresh tokens removed from the store at any time
NextRevoke ==
    \/ AuthRegisterLookup
    \/ RegisterCount
    \/ RegisterInsert
    \/ RegisterSave
    \/ AuthLoginLookup
    \/ LoginSave
    \/ AuthTick
    \/ RevokeRefreshToken
    \/ AuthDeleteCourse
    \/ CourseDelete

SpecRevoke == Init /\ [][NextRevoke]_vars

\* the same with a clock that advances by a second or by the lifetime of a
\* refresh token, after which the entries stored before no longer verify
ScanTick == Idle /\ Tick({1, RefreshTTL})

\* the route called with the access tokens the server issued and an email
ScanDeleteCourse ==
    DeleteCourse(Headers({p.token : p \in issued}, ValidEmails, {""}), {0})

NextScan ==
    \/ AuthRegisterLookup
    \/ RegisterCount
    \/ RegisterInsert
    \/ RegisterSave
    \/ AuthLoginLookup
    \/ LoginSave
    \/ ScanTick
    \/ RevokeRefreshToken
    \/ ScanDeleteCourse
    \/ CourseDelete

SpecScan == Init /\ [][NextScan]_vars

\* the role gate: valid registrations, and every catalog mutation called by a
\* client with a token pair it was issued and its own email.  POST /api/courses,
\* the one route that reads the role header, is called with any role header.
\* Bodies carry the required fields.  Requests are served one at a time.
CourseBodies == {[name |-> "Algebra", code |-> "ALG"]}

CourseUpdates == {[lessons |-> <<>>]}

LessonBodies == {[title |-> "Intro", youtubeLink |-> "https://youtu.be/1"]}

LessonUpdates == {[title |-> "Outro"]}

AssignmentBodies == {[title |-> "Essay", link |-> "https://x.com/1"]}

AssignmentUpdates == {[title |-> "Quiz"]}

RolesRegisterLookup ==
    Idle /\ RegisterLookup(MaxRoleReqs, {"Ann"}, ValidEmails, ValidPasswords)

RolesPostCourses == Idle /\ PostCourses(MaxRoleDocs, OwnHeaders(Roles), CourseBodies)

RolesPutCourse == Idle /\ PutCourse(RoleHeaders, Ids, CourseUpdates)

RolesDeleteCourse == Idle /\ DeleteCourse(RoleHeaders, Ids)

RolesPostLessons == Idle /\ PostLessons(MaxRoleDocs, RoleHeaders, Ids, LessonBodies)

RolesPutLesson == Idle /\ PutLesson(RoleHeaders, Ids, LessonUpdates)

RolesDeleteLesson == Idle /\ DeleteLesson(RoleHeaders, Ids)

RolesPostAssignments == Idle /\ PostAssignments(MaxRoleDocs, RoleHeaders, Ids, AssignmentBodies)

RolesPutAssignment == Idle /\ PutAssignment(RoleHeaders, Ids, AssignmentUpdates)

RolesDeleteAssignment == Idle /\ DeleteAssignment(RoleHeaders, Ids)

NextRoles ==
    \/ RolesRegisterLookup
    \/ RegisterCount
    \/ RegisterInsert
    \/ RegisterSave
    \/ RolesPostCourses
    \/ CourseSave
    \/ RolesPutCourse
    \/ CourseUpdate
    \/ RolesDeleteCourse
    \/ CourseDelete
    \/ RolesPostLessons
    \/ LessonSave
    \/ LessonPush
    \/ RolesPutLesson
    \/ LessonUpdate
    \/ RolesDeleteLesson
    \/ LessonDelete
    \/ RolesPostAssignments
    \/ AssignmentSave
    \/ AssignmentPush
    \/ RolesPutAssignment
    \/ AssignmentUpdate
    \/ RolesDeleteAssignment
    \/ AssignmentDelete

SpecRoles == Init /\ [][NextRoles]_vars

\* the gate before the handlers: every catalog mutation route called with
\* every header combination, after registrations, logins, clock advances and
\* removals of refresh tokens.  Requests are served one at a time.
GateHeaders(roles) ==
    Headers({p.token : p \in issued} \cup {Malformed}, Emails, roles)

GatePostCourses ==
    Idle /\ PostCourses(MaxRoleDocs, GateHeaders({"", "admin"}), CourseBodies)

GatePutCourse == Idle /\ PutCourse(GateHeaders({""}), Ids, CourseUpdates)

GateDeleteCourse == Idle /\ DeleteCourse(GateHeaders({""}), Ids)

GatePostLessons ==
    Idle /\ PostLessons(MaxRoleDocs, GateHeaders({""}), Ids, LessonBodies)

GatePutLesson == Idle /\ PutLesson(GateHeaders({""}), Ids, LessonUpdates)

GateDeleteLesson == Idle /\ DeleteLesson(GateHeaders({""}), Ids)

GatePostAssignments ==
    Idle /\ PostAssignments(MaxRoleDocs, GateHeaders({""}), Ids, AssignmentBodies)

GatePutAssignment ==
    Idle /\ PutAssignment(GateHeaders({""}), Ids, AssignmentUpdates)

GateDeleteAssignment == Idle /\ DeleteAssignment(GateHeaders({""}), Ids)

\* the lifetime of an access token
GateTick == Idle /\ Tick({AccessTTL})

GateRegisterLookup ==
    Idle /\ RegisterLookup(MaxGateReqs, {"Ann"}, ValidEmails, ValidPasswords)

NextGate ==
    \/ GateRegisterLookup
    \/ RegisterCount
    \/ RegisterInsert
    \/ RegisterSave
    \/ GateTick
    \/ RevokeRefreshToken
    \/ GatePostCourses
    \/ CourseSave
    \/ GatePutCourse
    \/ CourseUpdate
    \/ GateDeleteCourse
    \/ CourseDelete
    \/ GatePostLessons
    \/ LessonSave
    \/ LessonPush
    \/ GatePutLesson
    \/ LessonUpdate
    \/ GateDeleteLesson
    \/ LessonDelete
    \/ GatePostAssignments
    \/ AssignmentSave
    \/ AssignmentPush
    \/ GatePutAssignment
    \/ AssignmentUpdate
    \/ GateDeleteAssignment
    \/ AssignmentDelete

SpecGate == Init /\ [][NextGate]_vars

\* the two-write creations: one registration (the admin), and course creation,
\* update and deletion interleaved with lesson and assignment creation.  The
\* client names courses that exist when it sends the request.
ExistingCourses == DOMAIN courses

CatalogRegisterLookup ==
    RegisterLookup(MaxCatalogReqs, {"Ann"}, {"first@x.com"}, ValidPasswords)

CatalogPostCourses == PostCourses(MaxDocs, RoleHeaders, CourseBodies)

CatalogPutCourse == PutCourse(RoleHeaders, ExistingCourses, {[lessons |-> <<>>]})

CatalogDeleteCourse == DeleteCourse(RoleHeaders, ExistingCourses)

CatalogPostLessons == PostLessons(MaxDocs, RoleHeaders, ExistingCourses, LessonBodies)

CatalogPostAssignments == PostAssignments(MaxDocs, RoleHeaders, ExistingCourses, AssignmentBodies)

NextCatalog ==
    \/ CatalogRegisterLookup
    \/ RegisterCount
    \/ RegisterInsert
    \/ RegisterSave
    \/ CatalogPostCourses
    \/ CourseSave
    \/ CatalogPutCourse
    \/ CourseUpdate
    \/ CatalogDeleteCourse
    \/ CourseDelete
    \/ CatalogPostLessons
    \/ LessonSave
    \/ LessonPush
    \/ CatalogPostAssignments
    \/ AssignmentSave
    \/ AssignmentPush

SpecCatalog == Init /\ [][NextCatalog]_vars

\* creations and deletions: one registration (the admin), then courses,
\* lessons and assignments created and deleted, one request at a time, the
\* client naming any id handed out so far
DeletesRegisterLookup ==
    RegisterLookup(MaxCatalogReqs, {"Ann"}, {"first@x.com"}, ValidPasswords)

DeletesPostCourses == Idle /\ PostCourses(MaxDocs, RoleHeaders, CourseBodies)

DeletesDeleteCourse == Idle /\ DeleteCourse(RoleHeaders, Ids)

DeletesPostLessons == Idle /\ PostLessons(MaxDocs, RoleHeaders, Ids, LessonBodies)

DeletesDeleteLesson == Idle /\ DeleteLesson(RoleHeaders, Ids)

DeletesPostAssignments == Idle /\ PostAssignments(MaxDocs, RoleHeaders, Ids, AssignmentBodies)

DeletesDeleteAssignment == Idle /\ DeleteAssignment(RoleHeaders, Ids)

NextDeletes ==
    \/ DeletesRegisterLookup
    \/ RegisterCount
    \/ RegisterInsert
    \/ RegisterSave
    \/ DeletesPostCourses
    \/ CourseSave
    \/ DeletesDeleteCourse
    \/ CourseDelete
    \/ DeletesPostLessons
    \/ LessonSave
    \/ LessonPush
    \/ DeletesDeleteLesson
    \/ LessonDelete
    \/ DeletesPostAssignments
    \/ AssignmentSave
    \/ AssignmentPush
    \/ DeletesDeleteAssignment
    \/ AssignmentDelete

SpecDeletes == Init /\ [][NextDeletes]_vars

\* the notification service: requests on the three routes, any interleaving
NextMail ==
    \/ SendEmail
    \/ TransactionSave
    \/ SendMail

SpecMail == Init /\ [][NextMail]_vars

(* ------------------------------ properties ----------------------------- *)

Range(f) == {f[i] : i \in DOMAIN f}

\* the request that arrives in this step, if one does: answered at once (it
\* is last', and the requests in flight are as before) or accepted (it is
\* the one more request in flight)
ArrivedNow ==
    IF last' # last /\ inflight' = inflight THEN {last'}
    ELSE IF Cardinality(inflight') > Cardinality(inflight) THEN inflight' \ inflight
    ELSE {}

\* the request that is answered in this step after a wait, if one is
FinishedNow ==
    IF last' # last /\ inflight' # inflight THEN {last'} ELSE {}

\* C1: the first user created, and only that user, is stored with role
\* 'admin'; every other user is stored with role 'student'.
C1_OnlyFirstUserIsAdmin ==
    \A i \in DOMAIN users :
        users[i].role = IF i = 1 THEN "admin" ELSE "student"

\* C9: no two stored users have the same email.
C9_EmailUnique ==
    \A i, j \in DOMAIN users : users[i].email = users[j].email => i = j

\* two registrations with one email both passed the lookup; one created the
\* user and the other was refused by the index
C9_Witness ==
    /\ last.kind = "register" /\ last.status = 500
    /\ \E i \in DOMAIN users : users[i].email = last.email

RegisterInvalid(r) ==
    \/ r.name = "" \/ r.email = "" \/ r.password = ""
    \/ Len(r.password) < 8
    \/ \E i \in DOMAIN users : users[i].email = r.email

\* C6: a registration with a missing field, a password shorter than 8
\* characters or an email that is already stored is answered 400 at once and
\* the user store is unchanged; any other registration goes on and ends in 201
\* with its user stored, or in 500 when the unique index refuses the insert.
C6_RegisterValidation ==
    [][/\ \A r \in ArrivedNow :
            r.kind = "register" =>
                IF RegisterInvalid(r)
                THEN r.pc = "done" /\ r.status = 400 /\ users' = users
                ELSE r.pc # "done" /\ Len(r.password) >= 8
       /\ \A r \in FinishedNow :
            r.kind = "register" =>
                \/ /\ r.status = 201
                   /\ \E i \in DOMAIN users' :
                        /\ users'[i].email = r.email
                        /\ users'[i].name = r.name
                \/ /\ r.status = 500 /\ users' = users
                   /\ \E i \in DOMAIN users : users[i].email = r.email]_vars

\* a password of exactly 8 characters was accepted with 201
C6_Witness ==
    /\ last.kind = "register" /\ last.status = 201
    /\ Len(last.password) = 8

LoginUnknownOrWrong(r) ==
    /\ r.email # "" /\ r.password # ""
    /\ \/ ~\E i \in DOMAIN users : users[i].email = r.email
       \/ \E i \in DOMAIN users :
            users[i].email = r.email /\ users[i].password # BcryptHash(r.password)

\* C10: a login with an email no user has and a login with a stored email and
\* a wrong password get the same response, 401 'Invalid email or password'
\* with no token, and the user store (every refreshTokens list) is unchanged.
C10_LoginSameError ==
    [][\A r \in ArrivedNow :
          (r.kind = "login" /\ LoginUnknownOrWrong(r)) =>
              /\ r.pc = "done" /\ r.status = 401
              /\ r.message = "Invalid email or password"
              /\ r.code = "" /\ r.token = Undefined /\ r.refreshToken = Undefined
              /\ users' = users]_vars

\* a login with a stored email and a wrong password was answered
C10_Witness ==
    /\ last.kind = "login" /\ last.status = 401
    /\ \E i \in DOMAIN users : users[i].email = last.email

ProtectedKinds ==
    {"postCourses", "putCourse", "deleteCourse", "postLessons", "putLesson",
     "deleteLesson", "postAssignments", "putAssignment", "deleteAssignment"}

\* what the request presents
TokenMissing(r) == r.hAuth = <<>> \/ Len(r.hAuth) < 2

Presented(r) == r.hAuth[2]

WellSigned(t) == t.form = "jwt" /\ t.key = "JWT_SECRET"

Expired(t) == time >= t.exp

NoSuchUser(r) ==
    ~\E i \in DOMAIN users :
        i = Presented(r).userId /\ users[i].email = r.hEmail

LiveEntries(uid) ==
    {t \in Range(users[uid].refreshTokens) :
        /\ t.form = "jwt" /\ t.key = "JWT_REFRESH_SECRET"
        /\ time < t.exp /\ t.userId = uid}

\* the failure code of the first check that fails, "" when none does
FirstFailure(r) ==
    IF TokenMissing(r) THEN <<401, "TOKEN_MISSING">>
    ELSE IF r.hEmail = "" THEN <<401, "EMAIL_MISSING">>
    ELSE IF ~WellSigned(Presented(r)) THEN <<403, "INVALID_TOKEN">>
    ELSE IF Expired(Presented(r)) THEN <<401, "TOKEN_EXPIRED">>
    ELSE IF NoSuchUser(r) THEN <<403, "INVALID_CREDENTIALS">>
    ELSE IF LiveEntries(Presented(r).userId) = {} THEN <<403, "TOKEN_INVALIDATED">>
    ELSE <<0, "">>

\* C4: the middleware's checks are applied in their order and the first one
\* that fails alone gives the response (TOKEN_MISSING, EMAIL_MISSING,
\* INVALID_TOKEN or TOKEN_EXPIRED, INVALID_CREDENTIALS, TOKEN_INVALIDATED);
\* a request is answered by the middleware exactly once and not passed on, or
\* passed on once and not answered by it.
C4_FirstFailingCheck ==
    [][\A r \in ArrivedNow :
          r.kind \in ProtectedKinds =>
              IF FirstFailure(r) # <<0, "">>
              THEN /\ <<r.status, r.code>> = FirstFailure(r)
                   /\ r.pc = "done" /\ r.sent = 1 /\ r.next = 0
              ELSE /\ r.code = "" /\ r.next = 1 /\ r.sent <= 1]_vars

\* the last of the five checks was the first to fail
C4_Witness ==
    /\ last.kind \in ProtectedKinds
    /\ last.code = "TOKEN_INVALIDATED" /\ last.status = 403

\* C5: with a token and an email header present, a well-signed expired access
\* token gets 401 TOKEN_EXPIRED and a malformed or wrongly signed one gets 403
\* INVALID_TOKEN; neither gets 500 AUTH_FAILED or reaches the handler.
C5_ExpiredOrInvalid ==
    [][\A r \in ArrivedNow :
          (r.kind \in ProtectedKinds /\ ~TokenMissing(r) /\ r.hEmail # "") =>
              /\ (WellSigned(Presented(r)) /\ Expired(Presented(r))) =>
                    /\ r.status = 401 /\ r.code = "TOKEN_EXPIRED"
                    /\ r.next = 0 /\ r.pc = "done"
              /\ ~WellSigned(Presented(r)) =>
                    /\ r.status = 403 /\ r.code = "INVALID_TOKEN"
                    /\ r.next = 0 /\ r.pc = "done"]_vars

\* an access token the server issued was presented after its expiry
C5_Witness ==
    /\ last.kind \in ProtectedKinds /\ last.code = "TOKEN_EXPIRED"
    /\ \E p \in issued : last.hAuth = <<"Bearer", p.token>>

\* the request presents the access token of the issued pair p with p's email
\* before the token's expiry
PresentsPair(r, p) ==
    /\ r.kind \in ProtectedKinds
    /\ r.hAuth = <<"Bearer", p.token>> /\ r.hEmail = p.email
    /\ time < p.token.exp

StillListed(p) ==
    p.refreshToken \in Range(users[p.token.userId].refreshTokens)

\* C3 as stated: an unexpired access token whose own refresh token is no
\* longer in the user's list is rejected with 403 TOKEN_INVALIDATED, whatever
\* else the list holds.
C3_PairedTokenRemoved ==
    [][\A r \in ArrivedNow : \A p \in issued :
          (PresentsPair(r, p) /\ ~StillListed(p)) =>
              r.status = 403 /\ r.code = "TOKEN_INVALIDATED"]_vars

\* C3 as amended: it is rejected with 403 TOKEN_INVALIDATED when the list
\* holds no other unexpired, correctly signed refresh token of the user, and
\* accepted when it holds one.
C3_NoLiveTokenLeft ==
    [][\A r \in ArrivedNow : \A p \in issued :
          (PresentsPair(r, p) /\ ~StillListed(p)) =>
              IF LiveEntries(p.token.userId) = {}
              THEN r.status = 403 /\ r.code = "TOKEN_INVALIDATED" /\ r.next = 0
              ELSE r.code = "" /\ r.next = 1]_vars

\* an unexpired issued access token was rejected after its refresh token
\* was removed
C3_Witness ==
    /\ last.kind \in ProtectedKinds /\ last.code = "TOKEN_INVALIDATED"
    /\ \E p \in issued :
         /\ last.hAuth = <<"Bearer", p.token>> /\ last.hEmail = p.email
         /\ time < p.token.exp /\ ~StillListed(p)

\* the pairs a register and a later login of one user returned, both of whose
\* refresh tokens are in the user's list
RoundTrip(pr, pl) ==
    /\ pr.by = "register" /\ pl.by = "login" /\ pr.email = pl.email
    /\ StillListed(pr) /\ StillListed(pl)

\* C7: after register(U) and login(U), the access token of either pair,
\* presented unexpired with U's email while both refresh tokens are in U's
\* list, passes the middleware with U attached to the request.
C7_RoundTrip ==
    [][\A r \in ArrivedNow : \A pr, pl \in issued :
          (RoundTrip(pr, pl) /\ (PresentsPair(r, pr) \/ PresentsPair(r, pl))) =>
              /\ r.next = 1 /\ r.code = ""
              /\ r.user = users[pr.token.userId]
              /\ r.user.email = pr.email]_vars

\* both access tokens, signed a second apart, have passed the middleware
C7_Witness ==
    \E pr, pl \in issued :
        /\ RoundTrip(pr, pl) /\ pr.token # pl.token
        /\ last.kind = "deleteCourse" /\ last.status = 200
        /\ last.hAuth = <<"Bearer", pl.token>> /\ last.user.email = pl.email
        /\ \E r \in inflight :
             /\ r.kind = "deleteCourse" /\ r.next = 1
             /\ r.hAuth = <<"Bearer", pr.token>> /\ r.user.email = pr.email

\* C2: on every catalog mutation route, a request the middleware passed on as
\* a user whose stored role is not 'admin' is answered 403 by the handler's
\* first statement, and one passed on as an admin is not answered 403.
C2_RoleGate ==
    \A r \in inflight \cup {last} :
        (r.kind \in ProtectedKinds /\ r.next = 1) =>
            IF r.user.role = "admin"
            THEN r.status # 403
            ELSE r.pc = "done" /\ r.status = 403 /\ r.message = "Forbidden"

Occurrences(list, x) == Cardinality({i \in DOMAIN list : list[i] = x})

\* C8: when POST /api/courses/:courseId/lessons (or .../assignments) answers
\* 201 for course C, C's lessons (assignments) list holds the new document's
\* id exactly once and the new document's course field is C.
C8_CreatedUnderCourse ==
    [][\A r \in FinishedNow :
          /\ (r.kind = "postLessons" /\ r.status = 201) =>
                /\ r.param \in DOMAIN courses'
                /\ Occurrences(courses'[r.param].lessons, r.doc) = 1
                /\ r.doc \in DOMAIN lessons' /\ lessons'[r.doc].course = r.param
          /\ (r.kind = "postAssignments" /\ r.status = 201) =>
                /\ r.param \in DOMAIN courses'
                /\ Occurrences(courses'[r.param].assignments, r.doc) = 1
                /\ r.doc \in DOMAIN assignments'
                /\ assignments'[r.doc].course = r.param]_vars

\* the send-email request that leaves the given step of its handler now
LeavesNow(pc) == {r \in mailInflight : r.pc = pc /\ r \notin mailInflight'}

\* C11 as stated: every send-email request appends exactly one Notification
\* Record: there are as many records as requests whose save has been served.
C11_OneRecordPerRequest ==
    Len(transactions) = nmail - Cardinality({r \in mailInflight : r.pc = "save"})

\* C11 as amended: a send-email request whose wallet and email are present
\* appends exactly one record (amount + ' ' + coin, the wallet, the email,
\* status 'Sent') when its save is served, and one whose wallet or email is
\* missing appends none and is answered 500; no other step touches the
\* records.  The mail is dispatched only after the record is there: 200 if the
\* relay takes it, 500 if not, the record staying as it is.
C11_RecordBeforeDispatch ==
    [][/\ \A r \in LeavesNow("save") :
            IF r.wallet # "" /\ r.email # ""
            THEN transactions' = Append(transactions,
                     [wallet |-> r.wallet, amount |-> <<r.amount, " ", r.coin>>,
                      email |-> r.email, status |-> "Sent"])
            ELSE /\ transactions' = transactions
                 /\ mailLast'.rid = r.rid /\ mailLast'.status = 500
       /\ (LeavesNow("save") = {} => transactions' = transactions)
       /\ (outbox' # outbox => LeavesNow("send") # {})
       /\ \A r \in LeavesNow("send") :
            /\ \E i \in DOMAIN transactions :
                 transactions[i] = [wallet |-> r.wallet,
                                    amount |-> <<r.amount, " ", r.coin>>,
                                    email |-> r.email, status |-> "Sent"]
            /\ mailLast'.rid = r.rid
            /\ \/ /\ mailLast'.status = 200
                  /\ Len(outbox') = Len(outbox) + 1
                  /\ outbox'[Len(outbox')].to = r.email
               \/ /\ mailLast'.status = 500
                  /\ outbox' = outbox]_vars

\* the Binance request was answered 200 and its mail is out; then a dispatch
\* failed, was answered 500, and both records are there with status 'Sent'
C11_Witness ==
    /\ mailLast.status = 500 /\ mailLast.message = "sendMail rejected"
    /\ Len(outbox) = 1 /\ outbox[1].from = "Binance" /\ outbox[1].to = "a@b.com"
    /\ Len(transactions) = 2
    /\ transactions[1] = [wallet |-> "Binance", amount |-> <<"0.5", " ", "BTC">>,
                          email |-> "a@b.com", status |-> "Sent"]
    /\ transactions[2].wallet = mailLast.wallet /\ transactions[2].status = "Sent"

\* C12: the provider key is looked up lower-cased in the ten templates; a
\* request whose key is absent is answered 500, dispatches no mail, and has
\* written no Notification Record.
C12_UnknownProviderWritesNothing ==
    [][\A r \in mailInflight :
          (r \notin mailInflight' /\ r.wallet # ""
             /\ ToLowerCase(r.wallet) \notin Templates) =>
                /\ mailLast'.rid = r.rid /\ mailLast'.status = 500
                /\ outbox' = outbox
                /\ transactions' = transactions]_vars

\* C13: in register and in login the refresh token is pushed on the user's
\* stored list before the response carries the pair: a 201 or 200 finds the
\* token in the stored list, every pair a client holds has its refresh token
\* in its user's stored list, and a save that rejects is answered 500 with no
\* pair handed out.
C13_PersistedBeforeReturned ==
    [][/\ \A r \in FinishedNow :
            /\ r.status \in {200, 201} =>
                 /\ r.refreshToken \in Range(users'[r.user.id].refreshTokens)
                 /\ [token |-> r.token, refreshToken |-> r.refreshToken,
                     email |-> r.email,
                     by |-> r.kind] \in issued'
            /\ r.status = 500 => issued' = issued /\ users' = users
       /\ \A p \in issued' :
            /\ \E i \in DOMAIN users' : users'[i].email = p.email
            /\ \A i \in DOMAIN users' :
                 users'[i].email = p.email =>
                    p.refreshToken \in Range(users'[i].refreshTokens)]_vars

\* a login's save has rejected and was answered 500, its refresh token is not
\* in the stored list and no client holds it; the registration's pair is held
C13_Witness ==
    /\ last.kind = "login" /\ last.status = 500 /\ last.pc = "done"
    /\ last.refreshToken \notin Range(users[last.user.id].refreshTokens)
    /\ \A p \in issued : p.refreshToken # last.refreshToken
    /\ \E p \in issued : p.by = "register" /\ p.email = last.email

\* C14: a user's refreshTokens list gets exactly one more element, the
\* refresh token returned, at every registration answered 201 and login
\* answered 200 of that user, and no step changes it otherwise: it is never
\* shortened, so the tokens of concurrent logins are all in it afterwards.
C14_GrowsByOne ==
    [][/\ \A r \in FinishedNow :
            r.status \in {200, 201} =>
               users'[r.user.id].refreshTokens =
                  Append(users[r.user.id].refreshTokens, r.refreshToken)
       /\ \A i \in DOMAIN users :
            /\ i \in DOMAIN users'
            /\ \/ users'[i].refreshTokens = users[i].refreshTokens
               \/ \E r \in FinishedNow :
                    /\ r.status \in {200, 201} /\ r.user.id = i
                    /\ users'[i].refreshTokens =
                          Append(users[i].refreshTokens, r.refreshToken)
       /\ \A i \in DOMAIN users' \ DOMAIN users :
            users'[i].refreshTokens = <<>>]_vars

\* two logins of one user were in flight together, a second apart, and both
\* were answered 200: the list has grown by two since the later one read it,
\* and both refresh tokens are in it
C14_Witness ==
    /\ last.kind = "login" /\ last.status = 200
    /\ last.user.refreshTokens # <<>>
    /\ Len(users[last.user.id].refreshTokens) = Len(last.user.refreshTokens) + 2
    /\ \E p \in issued :
         /\ p.by = "login" /\ p.email = last.email
         /\ p.refreshToken # last.refreshToken
         /\ p.refreshToken \notin Range(last.user.refreshTokens)
         /\ p.refreshToken \in Range(users[last.user.id].refreshTokens)
    /\ last.refreshToken \in Range(users[last.user.id].refreshTokens)

\* the access token presented verifies and, with the claimed email, names a
\* stored user
ResolvesUser(r) ==
    /\ r.kind \in ProtectedKinds /\ ~TokenMissing(r) /\ r.hEmail # ""
    /\ WellSigned(Presented(r)) /\ ~Expired(Presented(r))
    /\ ~NoSuchUser(r)

\* C15: a request whose access token verifies and resolves, with the claimed
\* email, to user U is passed on if and only if U's list holds an entry that
\* is signed with the refresh secret, unexpired and carries the access token's
\* userId; otherwise it is answered 403 TOKEN_INVALIDATED.  Entries that fail
\* to verify never make the answer INVALID_TOKEN, TOKEN_EXPIRED or AUTH_FAILED.
C15_PassedIffLiveEntry ==
    [][\A r \in ArrivedNow :
          ResolvesUser(r) =>
             /\ IF \E i \in DOMAIN users[Presented(r).userId].refreshTokens :
                     LET t == users[Presented(r).userId].refreshTokens[i]
                     IN /\ t.form = "jwt" /\ t.key = "JWT_REFRESH_SECRET"
                        /\ time < t.exp
                        /\ t.userId = Presented(r).userId
                THEN r.next = 1 /\ r.code = ""
                ELSE /\ r.next = 0 /\ r.pc = "done"
                     /\ r.status = 403 /\ r.code = "TOKEN_INVALIDATED"
             /\ r.code \notin {"INVALID_TOKEN", "TOKEN_EXPIRED", "AUTH_FAILED"}]_vars

\* an unexpired access token was answered TOKEN_INVALIDATED by a scan over a
\* list that holds entries, all of them expired
C15_Witness ==
    /\ last.kind \in ProtectedKinds /\ last.code = "TOKEN_INVALIDATED"
    /\ ResolvesUser(last)
    /\ users[Presented(last).userId].refreshTokens # <<>>
    /\ \A t \in Range(users[Presented(last).userId].refreshTokens) : time >= t.exp

\* the catalog collections
Catalog == <<courses, lessons, assignments>>

\* C16: a request the middleware answered with a failure never reaches the
\* handler: next() is not called, the one response is the middleware's and
\* the catalog is as before.  A request reaches the handler only when none of
\* the five checks fails, next() is called once, and req.user is then the
\* stored user with the access token's userId and the claimed email.  Only a
\* request that reached its handler changes the catalog.
C16_HandlerOnlyAfterGate ==
    [][/\ \A r \in ArrivedNow :
            r.kind \in ProtectedKinds =>
               IF FirstFailure(r) # <<0, "">>
               THEN /\ r.next = 0 /\ r.pc = "done" /\ r.sent = 1
                    /\ r.code # "" /\ r.status \in {401, 403}
                    /\ r \notin inflight'
                    /\ Catalog' = Catalog /\ nextId' = nextId
               ELSE /\ r.next = 1 /\ r.code = ""
                    /\ Presented(r).userId \in DOMAIN users
                    /\ r.user = users[Presented(r).userId]
                    /\ r.user.id = Presented(r).userId
                    /\ r.user.email = r.hEmail
       /\ \A r \in inflight' \cup {last'} :
            r.kind \in ProtectedKinds =>
               /\ r.next <= 1 /\ r.sent <= 1
               /\ (r.pc # "done" \/ r.code = "") => r.next = 1
               /\ r.code # "" => r.next = 0
       /\ Catalog' # Catalog =>
            \E r \in inflight : r.kind \in ProtectedKinds /\ r.next = 1
                                /\ r \notin inflight']_vars

\* a handler has changed the catalog for a request that passed the gate, and
\* the same token, its refresh token since removed, was then stopped at the
\* gate
C16_Witness ==
    /\ Catalog # <<<<>>, <<>>, <<>>>>
    /\ last.kind \in ProtectedKinds /\ last.code = "TOKEN_INVALIDATED"
    /\ last.next = 0
    /\ \E p \in issued : last.hAuth = <<"Bearer", p.token>> /\ last.hEmail = p.email

\* the collection without the document of the given id, if it holds one
Without(coll, id) == [i \in DOMAIN coll \ {id} |-> coll[i]]

\* C17: DELETE of a course removes the course document and nothing else:
\* every lesson and assignment, those of the deleted course included, stays
\* as it is.  DELETE of a lesson or an assignment removes that document and
\* nothing else: the parent course's lessons and assignments lists stay as
\* they are, the deleted id included.
C17_NoReferentialCleanup ==
    [][\A r \in FinishedNow :
          /\ (r.kind = "deleteCourse" /\ r.status = 200) =>
                /\ courses' = Without(courses, r.param)
                /\ lessons' = lessons /\ assignments' = assignments
          /\ (r.kind = "deleteLesson" /\ r.status = 200) =>
                /\ lessons' = Without(lessons, r.param)
                /\ courses' = courses /\ assignments' = assignments
          /\ (r.kind = "deleteAssignment" /\ r.status = 200) =>
                /\ assignments' = Without(assignments, r.param)
                /\ courses' = courses /\ lessons' = lessons]_vars

\* a course with a lesson and an assignment was deleted, both are still
\* stored and name the course that is gone
C17_Witness ==
    /\ last.kind = "deleteCourse" /\ last.status = 200
    /\ last.param \notin DOMAIN courses
    /\ \E l \in DOMAIN lessons : lessons[l].course = last.param
    /\ \E a \in DOMAIN assignments : assignments[a].course = last.param

====
